---- MODULE Spec2Model ----
(***************************************************************************)
(* The grid game-state machine of src/src/App.tsx (a React component).     *)
(* One state variable per useState hook, plus the queue of setTimeout      *)
(* callbacks that handleSuccess has scheduled and that have not run yet.   *)
(* Every action is one event handler (or timer callback) run to            *)
(* completion, followed by the effects React runs after the re-render      *)
(* (the game-over effect on [grid], the high-score effect on [score]).     *)
(***************************************************************************)
EXTENDS Integers, Sequences, FiniteSets, TLC

\* ------------------------------------------------------------------------
\* Program constants
\* ------------------------------------------------------------------------
COLS == 6
ROWS == 10
INITIAL_ROWS == 3
TARGET_MIN == 10
TARGET_MAX == 25
BLOCK_MIN == 1
BLOCK_MAX == 9
TIME_MODE_INTERVAL == 8000
TICK_MS == 100
SCORE_PER_BLOCK == 10

\* ------------------------------------------------------------------------
\* Bounds of the model (the environment the program is explored in)
\* ------------------------------------------------------------------------
\* Matches are accepted only while the score stays within MaxScore.
MaxScore == 20
\* The player clicks tiles of the bottom ClickRows rows only.
ClickRows == 1
\* generateTarget gets one of the NumTargetDraws smallest draws.
NumTargetDraws == 1
\* At most MaxTimeouts handleSuccess callbacks are pending at once.
MaxTimeouts == 2
\* At most MaxAge other events (clicks, buttons, timer ticks) are processed
\* between a handleSuccess call and the run of its 300 ms callback.
MaxAge == 3
\* In time mode the player acts only during the first ActWindow and the last
\* ActWindow timer ticks of an 8 s interval.
ActWindow == 1
\* Tile identities are drawn from blocks of EPOCH_SIZE per board.
EPOCH_SIZE == 1000
\* SpecChain accepts ChainMatches matches of two tiles.
ChainMatches == 7
\* SpecClassic accepts matches while the score stays within ClassicMaxScore.
ClassicMaxScore == 40
\* The second draw of generateTarget in SpecClassic.
ClassicDraw == 5
\* SpecTimed accepts TimedMatches matches of two tiles.
TimedMatches == 3
\* SpecGrid varies the height of the first GridCols columns over GridHeights,
\* gives every tile the value GridValue and clears MatchSize tiles.
GridCols == 2
MatchSize == 2
GridValue == 5
GridHeights == {0, 3, ROWS}

\* Math.random() is modelled by its value times RAND_RES, a number of
\* 0..RAND_RES-1.
RAND_RES == 16

\* The draws of Math.random() a run is explored with: the values of the tiles
\* of a new row, by column; the draws generateTarget may get; and the score up
\* to which matches are explored.
MainEnv == [rowValues |-> <<5, 5, 6, 6, 6, 6>>,
            targetDraws |-> 0..(NumTargetDraws - 1),
            maxScore |-> MaxScore]

VARIABLES grid, target, selectedIds, score, highScore, isGameOver,
          gameStarted, mode, timeLeft, isPaused, clearingIds, isProcessing,
          timeouts, env

vars == <<grid, target, selectedIds, score, highScore, isGameOver,
          gameStarted, mode, timeLeft, isPaused, clearingIds, isProcessing,
          timeouts, env>>

\* ------------------------------------------------------------------------
\* Grid helpers.  grid is a sequence of ROWS rows of COLS cells; the code's
\* grid[r][c] (0-based) is Cell(grid, r, c).
\* ------------------------------------------------------------------------
RowIdx == 0..(ROWS - 1)
ColIdx == 0..(COLS - 1)

\* A cell holds a Block {id, value} or null.  A block is encoded as the
\* number id * ID_SHIFT + value (value < ID_SHIFT); null is 0.
ID_SHIFT == 10
NULL == 0
IdOf(b) == b \div ID_SHIFT
ValueOf(b) == b % ID_SHIFT

Cell(g, r, c) == g[r + 1][c + 1]

\* grid.flat() without the nulls.
Blocks(g) == { g[i][j] : i \in 1..Len(g), j \in 1..COLS } \ { NULL }

GridIds(g) == { IdOf(b) : b \in Blocks(g) }

\* prev[0].some(cell => cell !== null)
TopRowOccupied(g) == \E c \in ColIdx : Cell(g, 0, c) # NULL

generateBlock(id, v) == id * ID_SHIFT + v

\* The identities Math.random() hands to n new tiles: n identities that no
\* tile of the grid (inGrid) and no selection, clearing set or pending
\* callback (refs) holds.  Identities come in epochs of EPOCH_SIZE, one epoch
\* per board: a new board takes the smallest epoch no reference is left of, and
\* within a board the new identities follow the largest one in use.
EpochOf(id) == id \div EPOCH_SIZE

NewEpoch(refs) ==
    CHOOSE e \in 0..Cardinality(refs) :
        /\ \A i \in refs : EpochOf(i) # e
        /\ \A f \in 0..(e - 1) : \E i \in refs : EpochOf(i) = f

MaxOf(S) == CHOOSE m \in S : \A i \in S : i <= m

FreshIds(inGrid, refs, n) ==
    LET cur == IF inGrid = {} THEN NewEpoch(refs)
               ELSE EpochOf(CHOOSE i \in inGrid : TRUE)
        same == { i \in inGrid \cup refs : EpochOf(i) = cur }
        base == IF same = {} THEN cur * EPOCH_SIZE ELSE MaxOf(same)
    IN  [k \in 1..n |-> base + k]

\* Array.from({ length: COLS }, () => generateBlock())
NewRow(ids, vals) == [j \in 1..COLS |-> generateBlock(ids[j], vals[j])]

EmptyRow == [j \in 1..COLS |-> NULL]

\* The grid initGrid builds: bottom INITIAL_ROWS rows full, the rest empty.
\* ids is a sequence of INITIAL_ROWS * COLS identities, vals the values of a
\* row by column.
InitialGrid(ids, vals) ==
    [i \in 1..ROWS |->
        IF i - 1 >= ROWS - INITIAL_ROWS
        THEN LET k == (i - 1) - (ROWS - INITIAL_ROWS)
             IN  [j \in 1..COLS |->
                    generateBlock(ids[k * COLS + j], vals[j])]
        ELSE EmptyRow]

\* Faulty variant of InjectRow: the test of row 0 is missing.
InjectRow_Unguarded(g, ids, vals) ==
    [i \in 1..ROWS |->
        IF i - 1 = ROWS - 1 THEN NewRow(ids, vals) ELSE g[i + 1]]

\* The setGrid updater of addRow.
InjectRow(g, ids, vals) ==
    IF TopRowOccupied(g)
    THEN g
    ELSE [i \in 1..ROWS |->
            IF i - 1 = ROWS - 1 THEN NewRow(ids, vals) ELSE g[i + 1]]

\* Faulty variant of ColBlocks: the column is collected top down.
ColBlocks_TopDown(g, c) ==
    SelectSeq([k \in 1..ROWS |-> Cell(g, k - 1, c)], LAMBDA b : b # NULL)

\* colBlocks of the gravity loop: the non-null cells of column c, bottom up.
ColBlocks(g, c) ==
    SelectSeq([k \in 1..ROWS |-> Cell(g, ROWS - k, c)], LAMBDA b : b # NULL)

\* Faulty variant of ClearAndCompact: the gravity pass is missing.
ClearAndCompact_NoGravity(g, ids) ==
    [i \in 1..ROWS |-> [j \in 1..COLS |->
        IF g[i][j] # NULL /\ IdOf(g[i][j]) \in ids THEN NULL ELSE g[i][j]]]

\* The setGrid updater of handleSuccess: remove, then gravity per column.
ClearAndCompact(g, ids) ==
    LET nextGrid == [i \in 1..ROWS |-> [j \in 1..COLS |->
                        IF g[i][j] # NULL /\ IdOf(g[i][j]) \in ids
                        THEN NULL ELSE g[i][j]]]
    IN  [i \in 1..ROWS |-> [j \in 1..COLS |->
            LET colBlocks == ColBlocks(nextGrid, j - 1)
                k == ROWS - 1 - (i - 1)
            IN  IF k + 1 <= Len(colBlocks) THEN colBlocks[k + 1] ELSE NULL]]

\* generateTarget, for Math.random() = u / RAND_RES.
generateTarget(u) ==
    ((u * (TARGET_MAX - TARGET_MIN + 1)) \div RAND_RES) + TARGET_MIN

\* Faulty variant of GameOverEffect: it looks at the bottom row.
GameOverEffect_BottomRow(g, over) ==
    IF Len(g) > 0 /\ (\E c \in ColIdx : Cell(g, ROWS - 1, c) # NULL)
    THEN TRUE ELSE over

\* The game-over effect (deps [grid]): runs after a render that changed grid.
GameOverEffect(g, over) ==
    IF Len(g) > 0 /\ TopRowOccupied(g) THEN TRUE ELSE over

\* Faulty variant of HighScoreEffect: the high score follows the score.
HighScoreEffect_TracksScore(s, hs) == s

\* The high-score effect (deps [score, highScore]).
HighScoreEffect(s, hs) == IF s > hs THEN s ELSE hs

\* currentSum of handleBlockClick.
RECURSIVE SumValues(_)
SumValues(bs) ==
    IF bs = {} THEN 0
    ELSE LET b == CHOOSE x \in bs : TRUE
         IN  ValueOf(b) + SumValues(bs \ {b})

CurrentSum(g, sel) == SumValues({ b \in Blocks(g) : IdOf(b) \in sel })

\* Identities captured by the pending handleSuccess callbacks.
RECURSIVE TimeoutIds(_)
TimeoutIds(q) ==
    IF q = <<>> THEN {} ELSE Head(q).ids \cup TimeoutIds(Tail(q))

\* The pending callbacks after one more event has been processed.
Aged(q) == [i \in 1..Len(q) |-> [q[i] EXCEPT !.age = @ + 1]]

\* The player acts now.
PlayerActs ==
    \/ mode = "classic"
    \/ timeLeft > TIME_MODE_INTERVAL - ActWindow * TICK_MS
    \/ timeLeft <= ActWindow * TICK_MS

\* Another event may be processed before the oldest callback runs.
CanStep == \A i \in 1..Len(timeouts) : timeouts[i].age < MaxAge

\* ------------------------------------------------------------------------
\* Initial state: the useState initial values.
\* ------------------------------------------------------------------------
Init ==
    /\ grid = <<>>
    /\ target = 0
    /\ selectedIds = {}
    /\ score = 0
    /\ highScore = 0
    /\ isGameOver = FALSE
    /\ gameStarted = FALSE
    /\ mode = "classic"
    /\ timeLeft = TIME_MODE_INTERVAL
    /\ isPaused = FALSE
    /\ clearingIds = {}
    /\ isProcessing = FALSE
    /\ timeouts = <<>>
    /\ env = MainEnv

\* ------------------------------------------------------------------------
\* Operations
\* ------------------------------------------------------------------------
\* initGrid, with the effects that follow its render.
initGrid ==
    \E u \in env.targetDraws :
    \E ids \in {FreshIds({}, clearingIds \cup TimeoutIds(timeouts),
                          INITIAL_ROWS * COLS)} :
    \E newGrid \in {InitialGrid(ids, env.rowValues)} :
        /\ grid' = newGrid
        /\ target' = generateTarget(u)
        /\ score' = 0
        /\ isGameOver' = GameOverEffect(newGrid, FALSE)
        /\ selectedIds' = {}
        /\ timeLeft' = TIME_MODE_INTERVAL
        /\ isProcessing' = FALSE
        /\ highScore' = HighScoreEffect(0, highScore)

\* startGame(selectedMode): the two buttons of the menu screen.
startGame(selectedMode) ==
    /\ ~gameStarted
    /\ CanStep
    /\ mode' = selectedMode
    /\ gameStarted' = TRUE
    /\ initGrid
    /\ timeouts' = Aged(timeouts)
    /\ UNCHANGED <<isPaused, clearingIds>>
    /\ env' = env

\* resetGame: the header button and the game-over overlay button.
resetGame ==
    /\ gameStarted
    /\ CanStep /\ PlayerActs
    /\ initGrid
    /\ timeouts' = Aged(timeouts)
    /\ UNCHANGED <<mode, gameStarted, isPaused, clearingIds>>
    /\ env' = env

\* The Home buttons: setGameStarted(false).
returnToMenu ==
    /\ gameStarted
    /\ CanStep /\ PlayerActs
    /\ gameStarted' = FALSE
    /\ timeouts' = Aged(timeouts)
    /\ UNCHANGED <<grid, target, selectedIds, score, highScore, isGameOver,
                   mode, timeLeft, isPaused, clearingIds, isProcessing>>
    /\ env' = env

\* The header pause button: setIsPaused(!isPaused).
togglePause ==
    /\ gameStarted
    /\ CanStep /\ PlayerActs
    /\ isPaused' = ~isPaused
    /\ timeouts' = Aged(timeouts)
    /\ UNCHANGED <<grid, target, selectedIds, score, highScore, isGameOver,
                   gameStarted, mode, timeLeft, clearingIds, isProcessing>>
    /\ env' = env

\* The button of the pause overlay: setIsPaused(false).
resume ==
    /\ gameStarted
    /\ isPaused
    /\ CanStep /\ PlayerActs
    /\ isPaused' = FALSE
    /\ timeouts' = Aged(timeouts)
    /\ UNCHANGED <<grid, target, selectedIds, score, highScore, isGameOver,
                   gameStarted, mode, timeLeft, clearingIds, isProcessing>>
    /\ env' = env

\* Faulty variant of handleSuccess: it clears the selectedIds of the render
\* (without the tile just clicked) instead of its argument.
handleSuccess_StaleSelection(ids) ==
    IF isProcessing
    THEN UNCHANGED vars
    ELSE /\ isProcessing' = TRUE
         /\ clearingIds' = selectedIds
         /\ score' = score + Cardinality(ids) * SCORE_PER_BLOCK
         /\ highScore' = HighScoreEffect(score', highScore)
         /\ timeouts' = Append(Aged(timeouts),
                               [ids |-> selectedIds, mode |-> mode, age |-> 0])
         /\ UNCHANGED <<grid, target, selectedIds, isGameOver, gameStarted,
                        mode, timeLeft, isPaused>>

\* Faulty variant of handleSuccess: every match scores as a pair.
handleSuccess_PairScore(ids) ==
    IF isProcessing
    THEN UNCHANGED vars
    ELSE /\ isProcessing' = TRUE
         /\ clearingIds' = ids
         /\ score' = score + 2 * SCORE_PER_BLOCK
         /\ highScore' = HighScoreEffect(score', highScore)
         /\ timeouts' = Append(Aged(timeouts),
                               [ids |-> ids, mode |-> mode, age |-> 0])
         /\ UNCHANGED <<grid, target, selectedIds, isGameOver, gameStarted,
                        mode, timeLeft, isPaused>>

\* handleSuccess(ids), called by handleBlockClick on a match.
handleSuccess(ids) ==
    IF isProcessing
    THEN UNCHANGED vars
    ELSE /\ isProcessing' = TRUE
         /\ clearingIds' = ids
         /\ score' = score + Cardinality(ids) * SCORE_PER_BLOCK
         /\ highScore' = HighScoreEffect(score', highScore)
         /\ timeouts' = Append(Aged(timeouts),
                               [ids |-> ids, mode |-> mode, age |-> 0])
         /\ UNCHANGED <<grid, target, selectedIds, isGameOver, gameStarted,
                        mode, timeLeft, isPaused>>

\* The tiles the player clicks: the rendered tiles of the bottom rows.
Clickable(r, c) ==
    /\ r >= ROWS - ClickRows
    /\ Cell(grid, r, c) # NULL

\* Faulty variant of handleBlockClick: an overflow only rejects the last click.
handleBlockClick_RollBack(r, c) ==
    /\ gameStarted
    /\ Clickable(r, c)
    /\ CanStep /\ PlayerActs
    /\ LET block == Cell(grid, r, c)
           newSelected == IF IdOf(block) \in selectedIds
                          THEN selectedIds \ {IdOf(block)}
                          ELSE selectedIds \cup {IdOf(block)}
       IN  IF isGameOver \/ isPaused \/ IdOf(block) \in clearingIds
              \/ isProcessing
           THEN UNCHANGED vars
           ELSE \E currentSum \in {CurrentSum(grid, newSelected)} :
                IF currentSum = target
                THEN /\ score + Cardinality(newSelected) * SCORE_PER_BLOCK
                           <= env.maxScore
                     /\ Len(timeouts) < MaxTimeouts
                     /\ handleSuccess(newSelected)
                ELSE IF currentSum > target
                THEN /\ selectedIds' = selectedIds
                     /\ timeouts' = Aged(timeouts)
                     /\ UNCHANGED <<grid, target, score, highScore,
                                    isGameOver, gameStarted, mode, timeLeft,
                                    isPaused, clearingIds, isProcessing>>
                ELSE /\ selectedIds' = newSelected
                     /\ timeouts' = Aged(timeouts)
                     /\ UNCHANGED <<grid, target, score, highScore,
                                    isGameOver, gameStarted, mode, timeLeft,
                                    isPaused, clearingIds, isProcessing>>
    /\ env' = env

\* handleBlockClick(block) for the tile rendered at (r, c).
handleBlockClick(r, c) ==
    /\ gameStarted
    /\ Clickable(r, c)
    /\ CanStep /\ PlayerActs
    /\ LET block == Cell(grid, r, c)
           newSelected == IF IdOf(block) \in selectedIds
                          THEN selectedIds \ {IdOf(block)}
                          ELSE selectedIds \cup {IdOf(block)}
       IN  IF isGameOver \/ isPaused \/ IdOf(block) \in clearingIds
              \/ isProcessing
           THEN UNCHANGED vars
           ELSE \E currentSum \in {CurrentSum(grid, newSelected)} :
                IF currentSum = target
                THEN /\ score + Cardinality(newSelected) * SCORE_PER_BLOCK
                           <= env.maxScore
                     /\ Len(timeouts) < MaxTimeouts
                     /\ handleSuccess(newSelected)
                ELSE IF currentSum > target
                THEN /\ selectedIds' = {}
                     /\ timeouts' = Aged(timeouts)
                     /\ UNCHANGED <<grid, target, score, highScore,
                                    isGameOver, gameStarted, mode, timeLeft,
                                    isPaused, clearingIds, isProcessing>>
                ELSE /\ selectedIds' = newSelected
                     /\ timeouts' = Aged(timeouts)
                     /\ UNCHANGED <<grid, target, score, highScore,
                                    isGameOver, gameStarted, mode, timeLeft,
                                    isPaused, clearingIds, isProcessing>>
    /\ env' = env

\* Faulty variant of tick: the row comes one tick late (prev < 100).
tick_Late ==
    /\ gameStarted /\ mode = "time" /\ ~isGameOver /\ ~isPaused
    /\ CanStep
    /\ IF timeLeft < TICK_MS
       THEN \E ids \in {FreshIds(GridIds(grid),
                                  selectedIds \cup clearingIds
                                    \cup TimeoutIds(timeouts), COLS)} :
            \E newGrid \in {InjectRow(grid, ids, env.rowValues)} :
                /\ grid' = newGrid
                /\ timeLeft' = TIME_MODE_INTERVAL
                /\ isGameOver' = GameOverEffect(newGrid, isGameOver)
       ELSE /\ timeLeft' = timeLeft - TICK_MS
            /\ UNCHANGED <<grid, isGameOver>>
    /\ timeouts' = Aged(timeouts)
    /\ UNCHANGED <<target, selectedIds, score, highScore, gameStarted, mode,
                   isPaused, clearingIds, isProcessing>>
    /\ env' = env

\* One firing of the setInterval callback of the timer effect.  The interval
\* exists only while the effect's condition holds.
tick ==
    /\ gameStarted /\ mode = "time" /\ ~isGameOver /\ ~isPaused
    /\ CanStep
    /\ IF timeLeft <= TICK_MS
       THEN \E ids \in {FreshIds(GridIds(grid),
                                  selectedIds \cup clearingIds
                                    \cup TimeoutIds(timeouts), COLS)} :
            \E newGrid \in {InjectRow(grid, ids, env.rowValues)} :
                /\ grid' = newGrid
                /\ timeLeft' = TIME_MODE_INTERVAL
                /\ isGameOver' = GameOverEffect(newGrid, isGameOver)
       ELSE /\ timeLeft' = timeLeft - TICK_MS
            /\ UNCHANGED <<grid, isGameOver>>
    /\ timeouts' = Aged(timeouts)
    /\ UNCHANGED <<target, selectedIds, score, highScore, gameStarted, mode,
                   isPaused, clearingIds, isProcessing>>
    /\ env' = env

\* Faulty variant of timeoutFire: addRow is called whatever the mode.
timeoutFire_AlwaysInjects ==
    /\ timeouts # <<>>
    /\ \E cb \in {Head(timeouts)} :
       \E cleared \in {ClearAndCompact(grid, cb.ids)} :
       \E u \in env.targetDraws :
       \E ids \in {FreshIds(GridIds(cleared),
                             TimeoutIds(Tail(timeouts)), COLS)} :
       \E newGrid \in {InjectRow(cleared, ids, env.rowValues)} :
           /\ grid' = newGrid
           /\ clearingIds' = {}
           /\ selectedIds' = {}
           /\ target' = generateTarget(u)
           /\ isProcessing' = FALSE
           /\ timeLeft' = IF cb.mode = "classic"
                          THEN TIME_MODE_INTERVAL ELSE timeLeft
           /\ isGameOver' = GameOverEffect(newGrid, isGameOver)
    /\ timeouts' = Tail(timeouts)
    /\ UNCHANGED <<score, highScore, gameStarted, mode, isPaused>>
    /\ env' = env

\* Faulty variant of timeoutFire: the selection is not cleared.
timeoutFire_KeepsSelection ==
    /\ timeouts # <<>>
    /\ \E cb \in {Head(timeouts)} :
       \E cleared \in {ClearAndCompact(grid, cb.ids)} :
       \E u \in env.targetDraws :
       \E ids \in {FreshIds(GridIds(cleared),
                             TimeoutIds(Tail(timeouts)), COLS)} :
       \E newGrid \in {IF cb.mode = "classic"
                        THEN InjectRow(cleared, ids, env.rowValues)
                        ELSE cleared} :
           /\ grid' = newGrid
           /\ clearingIds' = {}
           /\ selectedIds' = selectedIds
           /\ target' = generateTarget(u)
           /\ isProcessing' = FALSE
           /\ timeLeft' = IF cb.mode = "classic"
                          THEN TIME_MODE_INTERVAL ELSE timeLeft
           /\ isGameOver' = GameOverEffect(newGrid, isGameOver)
    /\ timeouts' = Tail(timeouts)
    /\ UNCHANGED <<score, highScore, gameStarted, mode, isPaused>>
    /\ env' = env

\* The setTimeout callback of the oldest pending handleSuccess call.  ids and
\* mode are the values its closure captured.
timeoutFire ==
    /\ timeouts # <<>>
    /\ \E cb \in {Head(timeouts)} :
       \E cleared \in {ClearAndCompact(grid, cb.ids)} :
       \E u \in env.targetDraws :
       \E ids \in {FreshIds(GridIds(cleared),
                             TimeoutIds(Tail(timeouts)), COLS)} :
       \E newGrid \in {IF cb.mode = "classic"
                        THEN InjectRow(cleared, ids, env.rowValues)
                        ELSE cleared} :
           /\ grid' = newGrid
           /\ clearingIds' = {}
           /\ selectedIds' = {}
           /\ target' = generateTarget(u)
           /\ isProcessing' = FALSE
           /\ timeLeft' = IF cb.mode = "classic"
                          THEN TIME_MODE_INTERVAL ELSE timeLeft
           /\ isGameOver' = GameOverEffect(newGrid, isGameOver)
    /\ timeouts' = Tail(timeouts)
    /\ UNCHANGED <<score, highScore, gameStarted, mode, isPaused>>
    /\ env' = env

\* type GameMode
GameMode == {"classic", "time"}

Next ==
    \/ \E m \in GameMode : startGame(m)
    \/ resetGame
    \/ returnToMenu
    \/ togglePause
    \/ resume
    \/ \E r \in RowIdx, c \in ColIdx : handleBlockClick(r, c)
    \/ tick
    \/ timeoutFire

Spec == Init /\ [][Next]_vars

\* ------------------------------------------------------------------------
\* Vocabulary of the properties
\* ------------------------------------------------------------------------
\* The step runs a pending handleSuccess callback.
IsFire == Len(timeouts') < Len(timeouts)

\* The step is a click that handleSuccess accepted as a match.
IsMatch == Len(timeouts') > Len(timeouts)

\* The step is startGame or resetGame.
IsInit == resetGame \/ \E m \in GameMode : startGame(m)

\* The step puts a row of new tiles at the bottom of the board it found.
RowInjected ==
    /\ Len(grid) = ROWS /\ Len(grid') = ROWS
    /\ \A j \in 1..COLS :
          /\ grid'[ROWS][j] # NULL
          /\ IdOf(grid'[ROWS][j]) \notin GridIds(grid)

\* No column has an empty cell below an occupied cell.
NoFloating(g) ==
    \A r \in 0..(ROWS - 2), c \in ColIdx :
        Cell(g, r, c) # NULL => Cell(g, r + 1, c) # NULL

\* The callback cb was scheduled on an earlier board than the present one.
Stale(cb) ==
    /\ GridIds(grid) # {}
    /\ \A i \in cb.ids, k \in GridIds(grid) : EpochOf(i) # EpochOf(k)

\* The sum of the values of the tiles of g whose id is in ids, cell by cell.
RECURSIVE TileSumFrom(_, _, _)
TileSumFrom(g, ids, n) ==
    IF n = 0 THEN 0
    ELSE LET b == g[((n - 1) \div COLS) + 1][((n - 1) % COLS) + 1]
         IN TileSumFrom(g, ids, n - 1) +
            (IF b # NULL /\ IdOf(b) \in ids THEN ValueOf(b) ELSE 0)

TileSum(g, ids) == TileSumFrom(g, ids, Len(g) * COLS)

\* The state start and reset are specified to leave.
FreshPlaying ==
    /\ gameStarted /\ ~isPaused /\ ~isProcessing /\ ~isGameOver
    /\ Len(grid) = ROWS
    /\ \A r \in RowIdx, c \in ColIdx :
          (Cell(grid, r, c) # NULL) <=> (r >= ROWS - INITIAL_ROWS)
    /\ target \in TARGET_MIN..TARGET_MAX
    /\ score = 0
    /\ selectedIds = {}
    /\ timeLeft = TIME_MODE_INTERVAL

\* ------------------------------------------------------------------------
\* C1: in a started round an occupied row 0 means game over, after every
\* step (so after every injection and every clear-and-compact), and the round
\* becomes game over only by a step that leaves row 0 occupied.
\* ------------------------------------------------------------------------
C1_TopRowIsGameOver ==
    [][ /\ (Len(grid') > 0 /\ TopRowOccupied(grid')) => isGameOver'
        /\ (~isGameOver /\ isGameOver') => TopRowOccupied(grid') ]_vars

C1_Witness == gameStarted /\ isGameOver /\ TopRowOccupied(grid)

\* ------------------------------------------------------------------------
\* C3: while the round is paused no step other than start/reset changes
\* timeLeft or injects a row, the score does not change and the selection is
\* changed by no click; this includes the completion of a pending match.
\* ------------------------------------------------------------------------
C3_PausedFreezes ==
    [][ (gameStarted /\ isPaused /\ ~IsInit) =>
          /\ timeLeft' = timeLeft
          /\ ~RowInjected
          /\ score' = score
          /\ (selectedIds' # selectedIds => IsFire) ]_vars

\* ------------------------------------------------------------------------
\* C4: while the processing flag stays set, the selection, timeLeft and the
\* grid do not change.
\* ------------------------------------------------------------------------
C4_ResolvingSerialised ==
    [][ (isProcessing /\ isProcessing') =>
          /\ selectedIds' = selectedIds
          /\ timeLeft' = timeLeft
          /\ grid' = grid ]_vars

\* ------------------------------------------------------------------------
\* C5: the completion of a resolution that was pending when start or reset
\* built the present board changes neither the grid nor the target, the
\* selection or the processing flag.
\* ------------------------------------------------------------------------
C5_ResetDiscardsInFlight ==
    [][ (IsFire /\ Stale(Head(timeouts))) =>
          /\ grid' = grid
          /\ target' = target
          /\ selectedIds' = selectedIds
          /\ isProcessing' = isProcessing ]_vars

\* ------------------------------------------------------------------------
\* C6: start and reset leave the round playing (not paused, not resolving,
\* not game over) on a fresh board: bottom INITIAL_ROWS rows full, the rest
\* empty, target in range, score 0, no selection, a full timer; reset keeps
\* the mode.
\* ------------------------------------------------------------------------
C6_FreshRound ==
    [][ /\ IsInit => FreshPlaying'
        /\ resetGame => mode' = mode ]_vars

\* ------------------------------------------------------------------------
\* C7: in every state of a started round no tile floats.
\* ------------------------------------------------------------------------
C7_NoFloatingTiles == Len(grid) > 0 => NoFloating(grid)

\* A tile was removed from under another one, which fell.
C7_Witness ==
    /\ gameStarted /\ Len(grid) > 0
    /\ \E c \in ColIdx, r \in 1..(ROWS - 1) :
          /\ Cell(grid, r, c) # NULL
          /\ Cell(grid, r - 1, c) = NULL
          /\ \E d \in ColIdx : Cell(grid, r - 1, d) # NULL
          /\ \E q \in (r + 1)..(ROWS - 1) :
                IdOf(Cell(grid, q, c)) > IdOf(Cell(grid, r, c)) + COLS

\* ------------------------------------------------------------------------
\* C10: a click that brings the selection to the target sum is a match whose
\* cleared set is the selection with the clicked tile toggled in, and whose
\* completion removes those tiles and no other; a click that only changes
\* the selection never leaves it summing to the target.
\* ------------------------------------------------------------------------
C10_MatchDetection ==
    [][ /\ IsMatch =>
              LET cb == timeouts'[Len(timeouts')]
              IN /\ clearingIds' = cb.ids
                 /\ cb.ids \subseteq GridIds(grid)
                 /\ \E b \in GridIds(grid) \ selectedIds :
                       cb.ids = selectedIds \cup {b}
                 /\ TileSum(grid, cb.ids) = target
        /\ IsFire =>
              LET cb == Head(timeouts)
              IN /\ GridIds(grid') \cap cb.ids = {}
                 /\ (GridIds(grid) \ GridIds(grid')) \subseteq cb.ids
        /\ (~IsMatch /\ ~IsFire /\ ~IsInit /\ selectedIds' # selectedIds) =>
              TileSum(grid, selectedIds') # target ]_vars

\* A two-tile match has completed and removed its tiles.
C10_Witness ==
    /\ gameStarted /\ score > 0 /\ timeouts = <<>> /\ ~isProcessing
    /\ Cardinality(GridIds(grid)) % COLS = COLS - 2

\* ------------------------------------------------------------------------
\* Boards with a pending resolution, for the grid operations
\*
\* SpecGrid starts from boards of a round in which one match is waiting for
\* its callback: columns 1..GridCols have any height of GridHeights, the
\* other columns hold one tile, every tile has value GridValue and the
\* callback holds MatchSize tiles of the board (their sum is the target) or,
\* for a callback that outlived a reset, tiles of an earlier board.
\* ------------------------------------------------------------------------
GridEnv == [rowValues |-> <<5, 5, 6, 6, 6, 6>>,
            targetDraws |-> 0..(NumTargetDraws - 1),
            maxScore |-> MatchSize * SCORE_PER_BLOCK]

SampleGrid(h) ==
    [i \in 1..ROWS |-> [j \in 1..COLS |->
        LET k == ROWS - i + 1
        IN IF k <= h[j] THEN generateBlock((k - 1) * COLS + j, GridValue)
           ELSE NULL]]

SampleHeights ==
    { h \in [1..COLS -> GridHeights \cup {1}] :
        \A j \in (GridCols + 1)..COLS : h[j] = 1 }

RECURSIVE KSubsets(_, _)
KSubsets(S, k) ==
    IF k = 0 THEN {{}}
    ELSE { T \cup {x} : T \in KSubsets(S, k - 1), x \in S } \
         KSubsets(S, k - 1)

StaleIds == { EPOCH_SIZE + k : k \in 1..MatchSize }

InitPending ==
    \E h \in SampleHeights, m \in GameMode :
      \E g \in {SampleGrid(h)} :
        \E ids \in KSubsets(GridIds(g), MatchSize) \cup {StaleIds} :
          /\ grid = g
          /\ mode = m
          /\ timeouts = <<[ids |-> ids, mode |-> m, age |-> 0]>>
          /\ clearingIds = ids
          /\ isProcessing = (ids # StaleIds)
          /\ selectedIds = IF ids = StaleIds THEN {} ELSE ids \ {MaxOf(ids)}
          /\ score = IF ids = StaleIds THEN 0 ELSE MatchSize * SCORE_PER_BLOCK
          /\ highScore = MatchSize * SCORE_PER_BLOCK
          /\ target = MatchSize * GridValue
          /\ isGameOver = TopRowOccupied(g)
          /\ gameStarted = TRUE
          /\ timeLeft = TIME_MODE_INTERVAL
          /\ isPaused = FALSE
          /\ env = GridEnv

NextGrid == timeoutFire

SpecGrid == InitPending /\ [][NextGrid]_vars

\* The tiles of column c, top to bottom.
ColumnTiles(g, c) ==
    SelectSeq([i \in 1..ROWS |-> g[i][c + 1]], LAMBDA b : b # NULL)

\* ------------------------------------------------------------------------
\* C8: clear-and-compact removes exactly the tiles whose id is in the given
\* set; every other tile stays in its column with its value, in the same
\* vertical order, and the tiles of a column fill its bottommost cells.
\* (The callback of a timed round applies clearAndCompact and nothing else
\* to the grid.)
\* ------------------------------------------------------------------------
C8_ClearAndCompact ==
    [][ (IsFire /\ Head(timeouts).mode = "time") =>
          LET ids == Head(timeouts).ids
          IN /\ Blocks(grid') = { b \in Blocks(grid) : IdOf(b) \notin ids }
             /\ \A c \in ColIdx :
                   ColumnTiles(grid', c) =
                     SelectSeq(ColumnTiles(grid, c),
                               LAMBDA b : IdOf(b) \notin ids)
             /\ NoFloating(grid') ]_vars

\* A timed callback has removed its tiles from two levels of one column
\* that still holds tiles.
C8_Witness ==
    /\ timeouts = <<>> /\ mode = "time"
    /\ \E c \in ColIdx :
          /\ Len(ColumnTiles(grid, c)) = ROWS - MatchSize
          /\ IdOf(ColumnTiles(grid, c)[1]) = (ROWS - 1) * COLS + c + 1
          /\ IdOf(ColumnTiles(grid, c)[ROWS - MatchSize]) = (MatchSize - 1) * COLS + c + 1

\* ------------------------------------------------------------------------
\* C9: injectRow leaves the grid unchanged when a cell of row 0 is occupied;
\* otherwise every row moves up by one (row r takes row r + 1) and the
\* bottom row is COLS new tiles with values in BLOCK_MIN..BLOCK_MAX.
\* (The callback of a classic round whose tiles are not on the board
\* applies injectRow and nothing else to the grid.)
\* ------------------------------------------------------------------------
C9_InjectRow ==
    [][ (IsFire /\ Head(timeouts).mode = "classic"
                /\ Head(timeouts).ids \cap GridIds(grid) = {}) =>
          IF TopRowOccupied(grid)
          THEN grid' = grid
          ELSE /\ \A r \in 0..(ROWS - 2) : grid'[r + 1] = grid[r + 2]
               /\ \A j \in 1..COLS :
                     /\ grid'[ROWS][j] # NULL
                     /\ IdOf(grid'[ROWS][j]) \notin GridIds(grid)
                     /\ ValueOf(grid'[ROWS][j]) \in BLOCK_MIN..BLOCK_MAX
               /\ Cardinality({ IdOf(grid'[ROWS][j]) : j \in 1..COLS }) = COLS
        ]_vars

\* A classic callback found row 0 occupied and injected nothing.
C9_Witness ==
    /\ timeouts = <<>> /\ mode = "classic" /\ clearingIds = {}
    /\ TopRowOccupied(grid)
    /\ Cardinality(GridIds(grid)) = ROWS + COLS - 1

\* ------------------------------------------------------------------------
\* A classic round that inherited a pending callback
\*
\* SpecChain starts in the state that startGame("classic"), a match on the
\* first two tiles of the bottom row and resetGame lead to: a fresh board,
\* and the callback of the match of the previous board still pending.  The
\* player then only clicks tiles; callbacks run when they are due.
\* ------------------------------------------------------------------------
ChainEnv == [rowValues |-> <<3, 7, 5, 5, 6, 4>>,
             targetDraws |-> 0..(NumTargetDraws - 1),
             maxScore |-> ChainMatches * 2 * SCORE_PER_BLOCK]

ChainPending == { (INITIAL_ROWS - 1) * COLS + 1, (INITIAL_ROWS - 1) * COLS + 2 }

InitChain ==
    /\ grid = InitialGrid([k \in 1..(INITIAL_ROWS * COLS) |-> EPOCH_SIZE + k],
                          ChainEnv.rowValues)
    /\ target = generateTarget(0)
    /\ selectedIds = {}
    /\ score = 0
    /\ highScore = 2 * SCORE_PER_BLOCK
    /\ isGameOver = FALSE
    /\ gameStarted = TRUE
    /\ mode = "classic"
    /\ timeLeft = TIME_MODE_INTERVAL
    /\ isPaused = FALSE
    /\ clearingIds = ChainPending
    /\ isProcessing = FALSE
    /\ timeouts = <<[ids |-> ChainPending, mode |-> "classic", age |-> 1]>>
    /\ env = ChainEnv

NextChain ==
    \/ \E r \in RowIdx, c \in ColIdx : handleBlockClick(r, c)
    \/ timeoutFire

SpecChain == InitChain /\ [][NextChain]_vars

\* ------------------------------------------------------------------------
\* C2: once the round is game over and until start or reset, the score and
\* timeLeft do not change, no click changes the selection and no row is
\* injected.
\* ------------------------------------------------------------------------
C2_GameOverTerminal ==
    [][ (isGameOver /\ isGameOver' /\ ~IsInit) =>
          /\ score' = score
          /\ timeLeft' = timeLeft
          /\ (selectedIds' # selectedIds => IsFire)
          /\ ~RowInjected ]_vars

\* ------------------------------------------------------------------------
\* Classic rounds with matches of two to four tiles
\*
\* SpecClassic is the program from construction, played in classic mode
\* only, with rows drawn as 1,2,3,4,5,5 and targets drawn as 10 or
\* 10 + ClassicDraw: the target 10 is reached by two tiles (5+5), three
\* tiles (1+4+5, 2+3+5) and four tiles (1+2+3+4), a selection of several
\* tiles can overflow it, and a new target can be lower than the old one.
\* ------------------------------------------------------------------------
ClassicEnv == [rowValues |-> <<1, 2, 3, 4, 5, 5>>,
               targetDraws |-> {0, ClassicDraw},
               maxScore |-> ClassicMaxScore]

InitClassic ==
    /\ grid = <<>>
    /\ target = 0
    /\ selectedIds = {}
    /\ score = 0
    /\ highScore = 0
    /\ isGameOver = FALSE
    /\ gameStarted = FALSE
    /\ mode = "classic"
    /\ timeLeft = TIME_MODE_INTERVAL
    /\ isPaused = FALSE
    /\ clearingIds = {}
    /\ isProcessing = FALSE
    /\ timeouts = <<>>
    /\ env = ClassicEnv

NextClassic ==
    \/ startGame("classic")
    \/ resetGame
    \/ \E r \in RowIdx, c \in ColIdx : handleBlockClick(r, c)
    \/ timeoutFire

SpecClassic == InitClassic /\ [][NextClassic]_vars

\* ------------------------------------------------------------------------
\* C11: a match of N tiles adds exactly SCORE_PER_BLOCK * N to the score at
\* the step of the match; start and reset set the score to 0; no other step
\* changes it; the score is always a multiple of SCORE_PER_BLOCK.
\* ------------------------------------------------------------------------
C11_ScoreAccounting ==
    [][ /\ IsMatch =>
              LET cb == timeouts'[Len(timeouts')]
              IN /\ cb.ids \subseteq GridIds(grid)
                 /\ score' = score + SCORE_PER_BLOCK * Cardinality(cb.ids)
        /\ IsInit => score' = 0
        /\ (~IsMatch /\ ~IsInit) => score' = score
        /\ score' % SCORE_PER_BLOCK = 0 ]_vars

\* A match of four tiles has just been scored.
C11_Witness ==
    /\ isProcessing /\ timeouts # <<>>
    /\ Cardinality(clearingIds) = 4
    /\ score = 4 * SCORE_PER_BLOCK

\* The click on the tile at (r, c) passes the guard of handleBlockClick.
Accepted(r, c) ==
    /\ ~isGameOver /\ ~isPaused /\ ~isProcessing
    /\ IdOf(Cell(grid, r, c)) \notin clearingIds

\* The selection with the tile at (r, c) toggled.
Toggled(r, c) ==
    LET id == IdOf(Cell(grid, r, c))
    IN IF id \in selectedIds THEN selectedIds \ {id}
       ELSE selectedIds \cup {id}

\* ------------------------------------------------------------------------
\* C12: an accepted click that brings the sum of the selection above the
\* target empties the selection; the round stays playing and grid, target
\* and score are unchanged.
\* ------------------------------------------------------------------------
C12_OverflowReset ==
    [][ \A r \in RowIdx, c \in ColIdx :
          (/\ handleBlockClick(r, c)
           /\ Accepted(r, c)
           /\ TileSum(grid, Toggled(r, c)) > target) =>
             /\ selectedIds' = {}
             /\ grid' = grid /\ target' = target /\ score' = score
             /\ gameStarted' /\ ~isGameOver' /\ ~isPaused' /\ ~isProcessing'
      ]_vars

\* Three tiles are selected and a click on a fourth overflows the target.
C12_Witness ==
    /\ gameStarted /\ Cardinality(selectedIds) = 3
    /\ \E r \in RowIdx, c \in ColIdx :
          /\ Clickable(r, c) /\ Accepted(r, c)
          /\ IdOf(Cell(grid, r, c)) \notin selectedIds
          /\ TileSum(grid, Toggled(r, c)) > target

\* ------------------------------------------------------------------------
\* C13: the callback of a match made in classic mode applies, after
\* clear-and-compact, exactly one injectRow (which changes nothing only if
\* row 0 is then occupied); the callback of a match made in time mode
\* injects no row; after either the target is in TARGET_MIN..TARGET_MAX.
\* ------------------------------------------------------------------------
C13_InjectionIffClassic ==
    [][ /\ IsMatch => timeouts'[Len(timeouts')].mode = mode
        /\ IsFire =>
              LET cb == Head(timeouts)
                  compacted == ClearAndCompact(grid, cb.ids)
              IN /\ target' \in TARGET_MIN..TARGET_MAX
                 /\ cb.mode = "classic" =>
                       IF TopRowOccupied(compacted)
                       THEN grid' = compacted
                       ELSE /\ \A r \in 0..(ROWS - 2) :
                                 grid'[r + 1] = compacted[r + 2]
                            /\ \A j \in 1..COLS :
                                 /\ grid'[ROWS][j] # NULL
                                 /\ IdOf(grid'[ROWS][j]) \notin GridIds(grid)
                 /\ cb.mode = "time" =>
                       /\ grid' = compacted
                       /\ ~RowInjected ]_vars

\* The match of a timed round has completed: its two tiles are gone and no
\* row came in their place.
C13_Witness ==
    /\ gameStarted /\ mode = "time" /\ score > 0
    /\ timeouts = <<>> /\ ~isProcessing
    /\ Cardinality(GridIds(grid)) = INITIAL_ROWS * COLS - 2

\* ------------------------------------------------------------------------
\* C14: timeLeft is a multiple of TICK_MS in TICK_MS..TIME_MODE_INTERVAL; a
\* tick at timeLeft > TICK_MS takes TICK_MS off and leaves the grid; the tick
\* at timeLeft = TICK_MS (the 80th after a full timer) injects exactly one
\* row and sets timeLeft to TIME_MODE_INTERVAL; no other step changes
\* timeLeft except to refill it.
\* ------------------------------------------------------------------------
C14_TimedCadence ==
    [][ /\ timeLeft' % TICK_MS = 0
        /\ timeLeft' \in TICK_MS..TIME_MODE_INTERVAL
        /\ tick =>
              IF timeLeft = TICK_MS
              THEN /\ timeLeft' = TIME_MODE_INTERVAL
                   /\ RowInjected
                   /\ \A r \in 0..(ROWS - 2) : grid'[r + 1] = grid[r + 2]
              ELSE /\ timeLeft' = timeLeft - TICK_MS
                   /\ grid' = grid
        /\ ~tick => timeLeft' \in {timeLeft, TIME_MODE_INTERVAL} ]_vars

\* No match was ever made and a timed round has got a row from the timer.
C14_Witness ==
    /\ gameStarted /\ mode = "time" /\ highScore = 0 /\ timeouts = <<>>
    /\ timeLeft = TIME_MODE_INTERVAL
    /\ Cardinality(GridIds(grid)) = (INITIAL_ROWS + 1) * COLS

\* ------------------------------------------------------------------------
\* C15: no step lowers highScore (start, reset and the return to the menu
\* included), and after every step highScore >= score.
\* ------------------------------------------------------------------------
C15_HighScoreMonotone ==
    [][ highScore' >= highScore /\ highScore' >= score' ]_vars

\* A new round runs below the high score of an earlier one.
C15_Witness == gameStarted /\ score = 0 /\ highScore > 0 /\ timeouts = <<>>

\* ------------------------------------------------------------------------
\* C16: the round becomes paused only from playing (started, not game over,
\* not resolving) and leaves the paused state only from paused; a pause or
\* resume request in any other state changes nothing.
\* ------------------------------------------------------------------------
C16_PausePolicy ==
    [][ (~isPaused /\ isPaused') =>
          (gameStarted /\ ~isGameOver /\ ~isProcessing) ]_vars

\* ------------------------------------------------------------------------
\* C17: a click on a tile that a pending callback is going to remove changes
\* neither the selection nor the score and starts no match.
\* ------------------------------------------------------------------------
C17_PendingTileClick ==
    [][ \A r \in RowIdx, c \in ColIdx :
          (/\ handleBlockClick(r, c)
           /\ IdOf(Cell(grid, r, c)) \in TimeoutIds(timeouts)) =>
             /\ selectedIds' = selectedIds
             /\ score' = score
             /\ ~IsMatch ]_vars

\* ------------------------------------------------------------------------
\* C18: in every state every selected identity is the identity of a tile of
\* the grid (so the sum handleBlockClick computes over the grid is the sum of
\* the values of exactly the selected tiles).
\* ------------------------------------------------------------------------
C18_SelectionNotStale == selectedIds \subseteq GridIds(grid)

\* A selected tile has been moved up by a row injected after its selection.
C18_Witness ==
    /\ gameStarted /\ ~isProcessing
    /\ \E r \in 0..(ROWS - ClickRows - 1), c \in ColIdx :
          /\ Cell(grid, r, c) # NULL
          /\ IdOf(Cell(grid, r, c)) \in selectedIds

\* ------------------------------------------------------------------------
\* Timed rounds with uneven columns
\*
\* SpecTimed is the program from construction, played in time mode only,
\* with rows drawn as 3,7,5,5,6,4 (pairs 3+7, 5+5 and 6+4 reach the target
\* 10): columns that lost tiles to a match stay lower than the others.  The
\* player clicks while the board is at most INITIAL_ROWS rows high and again
\* once it is at least ROWS - 1 rows high, and watches in between.
\* ------------------------------------------------------------------------
TimedEnv == [rowValues |-> <<3, 7, 5, 5, 6, 4>>,
             targetDraws |-> 0..(NumTargetDraws - 1),
             maxScore |-> TimedMatches * 2 * SCORE_PER_BLOCK]

InitTimed ==
    /\ grid = <<>>
    /\ target = 0
    /\ selectedIds = {}
    /\ score = 0
    /\ highScore = 0
    /\ isGameOver = FALSE
    /\ gameStarted = FALSE
    /\ mode = "classic"
    /\ timeLeft = TIME_MODE_INTERVAL
    /\ isPaused = FALSE
    /\ clearingIds = {}
    /\ isProcessing = FALSE
    /\ timeouts = <<>>
    /\ env = TimedEnv

\* The number of rows of g that hold a tile.
Height(g) == Cardinality({ i \in 1..Len(g) : g[i] # EmptyRow })

TimedPlay == Height(grid) <= INITIAL_ROWS \/ Height(grid) >= ROWS - 1

NextTimed ==
    \/ startGame("time")
    \/ TimedPlay /\ \E r \in RowIdx, c \in ColIdx : handleBlockClick(r, c)
    \/ tick
    \/ timeoutFire

SpecTimed == InitTimed /\ [][NextTimed]_vars

\* ------------------------------------------------------------------------
\* C19: in every state, if the round is game over then row 0 of the grid is
\* occupied.
\* ------------------------------------------------------------------------
C19_GameOverHasCause == isGameOver => TopRowOccupied(grid)

LiveMatches == 2

LiveEnv == [rowValues |-> <<5, 5, 6, 6, 6, 6>>,
            targetDraws |-> 0..(NumTargetDraws - 1),
            maxScore |-> LiveMatches * 2 * SCORE_PER_BLOCK]

InitLive ==
    /\ grid = <<>>
    /\ target = 0
    /\ selectedIds = {}
    /\ score = 0
    /\ highScore = 0
    /\ isGameOver = FALSE
    /\ gameStarted = FALSE
    /\ mode = "classic"
    /\ timeLeft = TIME_MODE_INTERVAL
    /\ isPaused = FALSE
    /\ clearingIds = {}
    /\ isProcessing = FALSE
    /\ timeouts = <<>>
    /\ env = LiveEnv

NextLive ==
    \/ startGame("classic")
    \/ resetGame
    \/ returnToMenu
    \/ togglePause
    \/ resume
    \/ \E r \in RowIdx, c \in ColIdx : handleBlockClick(r, c)
    \/ timeoutFire

\* The run of the oldest pending callback as the queue of callbacks shows
\* it: the callback leaves the queue.  The steps of timeoutFire are exactly
\* the steps that do this, and timeoutFire is enabled exactly when a callback
\* is pending, so weak fairness of timeoutRuns is weak fairness of
\* timeoutFire.
timeoutRuns == timeouts # <<>> /\ timeouts' = Tail(timeouts)

SpecLive == InitLive /\ [][NextLive]_vars /\ WF_timeouts(timeoutRuns)

\* The identities a pending callback can hold in SpecLive: LiveEpochs boards
\* of at most LiveTiles tiles each.
LiveEpochs == 2
LiveTiles == 36
LiveIds ==
    { e * EPOCH_SIZE + k : e \in 0..(LiveEpochs - 1), k \in 1..LiveTiles }

\* The tile id is awaiting removal by a pending callback.
PendingTile(id) == id \in TimeoutIds(timeouts)

\* The processing flag never stays set: clicks are not rejected for ever.
C21_NeverStuck == isProcessing ~> ~isProcessing

\* Every tile of a match is eventually off the board with no callback left
\* that holds it.
C21_TilesRemoved ==
    /\ [](TimeoutIds(timeouts) \subseteq LiveIds)
    /\ \A id \in LiveIds :
          PendingTile(id) ~> (~PendingTile(id) /\ id \notin GridIds(grid))

\* The run of a callback removes the tiles of its match and clears the
\* processing flag.
C21_Completion ==
    [][ IsFire => /\ Head(timeouts).ids \cap GridIds(grid') = {}
                  /\ ~isProcessing' ]_vars

\* When a callback has run and the round has not been left for the menu,
\* the round is game over or playing (started, not paused, not processing).
C21_Outcome ==
    [][ (IsFire /\ gameStarted') =>
            (isGameOver' \/ (~isPaused' /\ ~isProcessing')) ]_vars

\* ------------------------------------------------------------------------
\* C21: resolving is transient.  Under fairness of the delayed callback,
\* every match is eventually followed by the removal of its tiles and the
\* clearing of the processing flag, after which the round is playing or
\* game over; the round never remains stuck with the processing flag set
\* and clicks rejected.
\* ------------------------------------------------------------------------
C21_ResolvingTransient ==
    /\ C21_NeverStuck
    /\ C21_TilesRemoved
    /\ C21_Completion
    /\ C21_Outcome

TypeOK ==
    /\ score \in 0..env.maxScore
    /\ timeLeft \in 1..TIME_MODE_INTERVAL

====
